---- MODULE Spec2Model ----
(***************************************************************************)
(* Model of the OpenSlide convenience wrapper (src/src/convenience.rs) and *)
(* of the Aperio property parser (src/src/properties/aperio.rs).           *)
(*                                                                         *)
(* The bindings module and the native library are not part of the source   *)
(* at hand: every native call is logged in the operation's record and its  *)
(* return value is an input chosen from a bounded set.                     *)
(***************************************************************************)
EXTENDS Integers, Sequences, FiniteSets, TLC

\* ------------------------------------------------------------- bounds
\* Number of native pointers the native layer hands out.
MaxPtr == 2
\* Number of wrapper objects (OpenSlide values) alive at the same time.
MaxWrap == 3
\* Largest level count / level / pixel count the native layer reports.
MaxLevel == 2
\* Most negative integer the native layer reports is -MinNeg.
MinNeg == 2
\* Largest number of property names the native layer enumerates.
MaxNames == 2

Ptr == 1..MaxPtr
Wid == 1..MaxWrap

\* ------------------------------------------------------------- integers
\* An integer of the program.  The program's integers are up to 64 bits wide
\* (i32, u32, i64, u64 and the generic T), wider than the model checker's
\* own, so a value is written 2^e + d (e = 0 stands for the base 0) with a
\* small offset d: exact for the values next to 0 and next to the type
\* boundaries 2^31, 2^32, 2^63 and 2^64, and ordered as the integers are.
Num(e, d) == [e |-> e, d |-> d]
Z(d) == Num(0, d)
Lt(x, y) == x.e < y.e \/ (x.e = y.e /\ x.d < y.d)
Le(x, y) == Lt(x, y) \/ x = y

\* ToPrimitive::to_u32 / to_i32 / to_i64: Some(x) when x fits, None otherwise.
\* (The negative values written here are next to 0, above the signed minima.)
Fits_u32(x) == Le(Z(0), x) /\ Lt(x, Num(32, 0))
Fits_i32(x) == Lt(x, Num(31, 0))
Fits_i64(x) == Lt(x, Num(63, 0))

\* `v as u32` on an i32, `v as u64` on an i64: two's complement wrap.
as_u32(v) == IF Lt(v, Z(0)) THEN Num(32, v.d) ELSE v
as_u64(v) == IF Lt(v, Z(0)) THEN Num(64, v.d) ELSE v

\* ------------------------------------------------------------- floats
\* An f64: a number (here integral), negative zero, or NaN.
Fl(v) == [k |-> "num", v |-> v]
NegZero == [k |-> "negzero", v |-> 0]
NaN == [k |-> "nan", v |-> 0]
\* IEEE 754 `a < b`: false when either side is NaN; -0.0 equals 0.0.
f_lt(a, b) == a.k # "nan" /\ b.k # "nan" /\ a.v < b.v

\* ------------------------------------------------------------- results
\* Result<T, Error>: Ok(v) or an error built by err_msg / propagated by `?`.
Ok(v) == [ok |-> TRUE, v |-> v]

\* kind: which branch produced the error; what: the quantity the message
\* names; val / max: the numbers formatted into the message.
Error(kind, what, val, max) ==
    [ok |-> FALSE, kind |-> kind, what |-> what, val |-> val, max |-> max]

\* One call into bindings::*, with the pointer, the arguments and the value
\* that came back.
Call(fn, osr, args, ret) == [fn |-> fn, osr |-> osr, args |-> args, ret |-> ret]

\* What a bindings function hands back: Err(_) or Ok(v).
BindErr == [ok |-> FALSE]
BindOk(v) == [ok |-> TRUE, v |-> v]

\* What one wrapper operation did: the native calls it made, in order, and
\* the value it returned.
Outcome(ncalls, result) == [ncalls |-> ncalls, result |-> result]

\* The error `?` propagates when bindings::fn returns Err.
NativeError(fn) == Error("native", fn, Z(0), Z(0))

\* ------------------------------------------------------------- OpenSlide::new
\* bindings::open over the native open: a null pointer is an error.
bindings_open(nret) == IF nret = 0 THEN BindErr ELSE BindOk(nret)

\* OpenSlide::new without the test that the path exists.
new_NoExistsCheck(filename, nret) ==
    IF ~filename.utf8
    THEN Outcome(<<>>, Error("conversion", "Path to &str", Z(0), Z(0)))
    ELSE LET b == bindings_open(nret) IN
         Outcome(<<Call("open", 0, <<>>, b)>>,
                 IF b.ok THEN Ok([osr |-> b.v]) ELSE NativeError("open"))

\* filename: [exists, utf8]; nret: what the native open returns if called.
new(filename, nret) ==
    IF ~filename.exists
    THEN Outcome(<<>>, Error("precondition", "Nonexisting path", Z(0), Z(0)))
    ELSE IF ~filename.utf8
    THEN Outcome(<<>>, Error("conversion", "Path to &str", Z(0), Z(0)))
    ELSE LET b == bindings_open(nret) IN
         Outcome(<<Call("open", 0, <<>>, b)>>,
                 IF b.ok THEN Ok([osr |-> b.v]) ELSE NativeError("open"))

\* #[derive(Clone)]: a field-by-field copy, the raw pointer included.
clone(self) == [osr |-> self.osr]

\* Drop::drop: closes the pointer the value holds.
drop(self) == Outcome(<<Call("close", self.osr, <<>>, BindOk(0))>>, Ok(0))

\* ------------------------------------------------------------- queries
\* get_level_count without the `num_levels < -1` branch.
get_level_count_NoUnknown(self, r) ==
    LET c == Call("get_level_count", self.osr, <<>>, r) IN
    IF ~r.ok THEN Outcome(<<c>>, NativeError("get_level_count"))
    ELSE IF r.v = Z(-1)
    THEN Outcome(<<c>>, Error("known", "Number of levels", Z(-1), Z(0)))
    ELSE Outcome(<<c>>, Ok(as_u32(r.v)))

\* r: what bindings::get_level_count returns.
get_level_count(self, r) ==
    LET c == Call("get_level_count", self.osr, <<>>, r) IN
    IF ~r.ok THEN Outcome(<<c>>, NativeError("get_level_count"))
    ELSE IF Lt(r.v, Z(-1))
    THEN Outcome(<<c>>, Error("unknown", "Number of levels", r.v, Z(0)))
    ELSE IF r.v = Z(-1)
    THEN Outcome(<<c>>, Error("known", "Number of levels", Z(-1), Z(0)))
    ELSE Outcome(<<c>>, Ok(as_u32(r.v)))

\* The per-axis checks both dimension queries run on (width, height).
dimensions(width, height) ==
    IF Lt(width, Z(-1)) THEN Error("unknown", "Width", width, Z(0))
    ELSE IF width = Z(-1) THEN Error("known", "Width", Z(-1), Z(0))
    ELSE IF Lt(height, Z(-1)) THEN Error("unknown", "Height", width, Z(0))
    ELSE IF height = Z(-1) THEN Error("known", "Height", Z(-1), Z(0))
    ELSE Ok(<<as_u64(width), as_u64(height)>>)

\* r: what bindings::get_level0_dimensions returns, Ok(<<width, height>>).
get_level0_dimensions(self, r) ==
    LET c == Call("get_level0_dimensions", self.osr, <<>>, r) IN
    IF ~r.ok THEN Outcome(<<c>>, NativeError("get_level0_dimensions"))
    ELSE Outcome(<<c>>, dimensions(r.v[1], r.v[2]))

\* check_level without the comparison with the level count.
check_level_NoRange(level, max_num_levels) ==
    IF ~Fits_u32(level)
    THEN Error("conversion", "Conversion to primitive error", Z(0), Z(0))
    ELSE IF ~Fits_i32(level)
    THEN Error("conversion", "Conversion to primitive error", Z(0), Z(0))
    ELSE Ok(level)

\* The level check get_level_dimensions and get_level_downsample start with:
\* Ok(level as i32) or the error returned before the per-level native call.
check_level(level, max_num_levels) ==
    IF ~Fits_u32(level)
    THEN Error("conversion", "Conversion to primitive error", Z(0), Z(0))
    ELSE IF Lt(max_num_levels, level)
    THEN Error("range", "Specified level", level, max_num_levels)
    ELSE IF ~Fits_i32(level)
    THEN Error("conversion", "Conversion to primitive error", Z(0), Z(0))
    ELSE Ok(level)

\* rc: what bindings::get_level_count returns; rd: what
\* bindings::get_level_dimensions returns if it is called.
get_level_dimensions(self, level, rc, rd) ==
    LET lc == get_level_count(self, rc) IN
    IF ~lc.result.ok THEN lc
    ELSE LET lv == check_level(level, lc.result.v) IN
         IF ~lv.ok THEN Outcome(lc.ncalls, lv)
         ELSE LET c == Call("get_level_dimensions", self.osr, <<lv.v>>, rd) IN
              IF ~rd.ok
              THEN Outcome(lc.ncalls \o <<c>>, NativeError("get_level_dimensions"))
              ELSE Outcome(lc.ncalls \o <<c>>, dimensions(rd.v[1], rd.v[2]))

\* rc: what bindings::get_level_count returns; rd: what
\* bindings::get_level_downsample returns if it is called (an f64).
get_level_downsample(self, level, rc, rd) ==
    LET lc == get_level_count(self, rc) IN
    IF ~lc.result.ok THEN lc
    ELSE LET lv == check_level(level, lc.result.v) IN
         IF ~lv.ok THEN Outcome(lc.ncalls, lv)
         ELSE LET c == Call("get_level_downsample", self.osr, <<lv.v>>, rd) IN
              IF ~rd.ok
              THEN Outcome(lc.ncalls \o <<c>>, NativeError("get_level_downsample"))
              ELSE IF f_lt(rd.v, Fl(0))
              THEN Outcome(lc.ncalls \o <<c>>,
                           Error("native_negative", "Downsample factor", rd.v, Z(0)))
              ELSE Outcome(lc.ncalls \o <<c>>, Ok(rd.v))

\* get_best_level_for_downsample without the test of the factor.
get_best_level_for_downsample_NoCheck(self, downsample_factor, r) ==
    LET c == Call("get_best_level_for_downsample", self.osr,
                  <<downsample_factor>>, r) IN
    IF ~r.ok THEN Outcome(<<c>>, NativeError("get_best_level_for_downsample"))
    ELSE IF Lt(r.v, Z(-1))
    THEN Outcome(<<c>>, Error("unknown", "Returned level", r.v, Z(0)))
    ELSE IF r.v = Z(-1)
    THEN Outcome(<<c>>, Error("known", "Returned level", Z(-1), Z(0)))
    ELSE Outcome(<<c>>, Ok(as_u32(r.v)))

\* downsample_factor: an f64 (T = f64; to_f64 is then the identity);
\* r: what bindings::get_best_level_for_downsample returns if it is called.
get_best_level_for_downsample(self, downsample_factor, r) ==
    IF f_lt(downsample_factor, Fl(0))
    THEN Outcome(<<>>, Error("precondition", "Only non-negative downsample factor",
                             downsample_factor, Z(0)))
    ELSE LET c == Call("get_best_level_for_downsample", self.osr,
                       <<downsample_factor>>, r) IN
         IF ~r.ok THEN Outcome(<<c>>, NativeError("get_best_level_for_downsample"))
         ELSE IF Lt(r.v, Z(-1))
         THEN Outcome(<<c>>, Error("unknown", "Returned level", r.v, Z(0)))
         ELSE IF r.v = Z(-1)
         THEN Outcome(<<c>>, Error("known", "Returned level", Z(-1), Z(0)))
         ELSE Outcome(<<c>>, Ok(as_u32(r.v)))

\* region_args_fit with the level converted to 64 bits like the others.
region_args_fit_Level64(row, col, level, height, width) ==
    /\ Fits_i64(col)
    /\ Fits_i64(row)
    /\ Fits_i64(level)
    /\ Fits_i64(width)
    /\ Fits_i64(height)

\* The five conversions read_region makes before the native call, in the
\* order the arguments are written: TRUE when every one of them is Some(_).
region_args_fit(row, col, level, height, width) ==
    /\ Fits_i64(col)
    /\ Fits_i64(row)
    /\ Fits_i32(level)
    /\ Fits_i64(width)
    /\ Fits_i64(height)

\* r: what bindings::read_region returns if it is called (the raw buffer);
\* dec: what utils::decode_buffer returns if it is called.
read_region(self, row, col, level, height, width, r, dec) ==
    IF ~region_args_fit(row, col, level, height, width)
    THEN Outcome(<<>>, Error("conversion", "Conversion to primitive error", Z(0), Z(0)))
    ELSE LET c == Call("read_region", self.osr,
                       [x |-> col, y |-> row, level |-> level, w |-> width, h |-> height],
                       r) IN
         IF ~r.ok THEN Outcome(<<c>>, NativeError("read_region"))
         ELSE LET d == Call("decode_buffer", 0,
                            [buffer |-> r.v, height |-> height, width |-> width,
                             word_repr |-> "BigEndian"],
                            dec) IN
              Outcome(<<c, d>>,
                      IF dec.ok THEN Ok(dec.v)
                      ELSE Error("decode", "decode_buffer", Z(0), Z(0)))

\* HashMap::insert: the new value replaces the one the key had.
insert(map, key, value) == [k \in DOMAIN map \cup {key} |-> IF k = key THEN value ELSE map[k]]

\* The loop of get_properties from the i-th name on; rv[i] is what
\* bindings::get_property_value returns for the i-th name if it is called.
RECURSIVE properties_loop(_, _, _, _, _, _)
properties_loop(self, names, rv, i, properties, ncalls) ==
    IF i > Len(names) THEN Outcome(ncalls, Ok(properties))
    ELSE LET c == Call("get_property_value", self.osr, <<names[i]>>, rv[i]) IN
         IF ~rv[i].ok
         THEN Outcome(ncalls \o <<c>>, NativeError("get_property_value"))
         ELSE properties_loop(self, names, rv, i + 1,
                              insert(properties, names[i], rv[i].v), ncalls \o <<c>>)

\* get_properties skipping the names whose value query fails.
RECURSIVE properties_skip(_, _, _, _, _, _)
properties_skip(self, names, rv, i, properties, ncalls) ==
    IF i > Len(names) THEN Outcome(ncalls, Ok(properties))
    ELSE LET c == Call("get_property_value", self.osr, <<names[i]>>, rv[i]) IN
         properties_skip(self, names, rv, i + 1,
                         IF rv[i].ok THEN insert(properties, names[i], rv[i].v)
                         ELSE properties,
                         ncalls \o <<c>>)
get_properties_Skip(self, rn, rv) ==
    LET c == Call("get_property_names", self.osr, <<>>, rn) IN
    IF ~rn.ok THEN Outcome(<<c>>, NativeError("get_property_names"))
    ELSE properties_skip(self, rn.v, rv, 1, <<>>, <<c>>)

\* rn: what bindings::get_property_names returns (a Vec of names).
get_properties(self, rn, rv) ==
    LET c == Call("get_property_names", self.osr, <<>>, rn) IN
    IF ~rn.ok THEN Outcome(<<c>>, NativeError("get_property_names"))
    ELSE properties_loop(self, rn.v, rv, 1, <<>>, <<c>>)

\* ------------------------------------------------------------- Aperio
\* Option<T>.
None == [some |-> FALSE]
Some(v) == [some |-> TRUE, v |-> v]

\* The fields of struct Aperio.
Fields ==
    {"filename", "image_id", "scan_scope_id", "date", "time", "user", "icc_profile",
     "parmset", "original_height", "original_width", "top", "left", "mpp",
     "line_camera_skew", "line_area_x_offset", "line_area_y_offset", "focus_offset",
     "app_mag", "stripe_width", "filtered"}

\* #[derive(Default)]: every field None.
AperioDefault == [f \in Fields |-> None]

\* The arms of the match in parse_property_name: property name -> field.
Arms ==
    [name \in {"aperio.Filename", "aperio.ImageID", "aperio.ScanScope ID", "aperio.Date",
               "aperio.Time", "aperio.User", "aperio.ICC Profile", "aperio.Parmset",
               "aperio.Originalheight", "aperio.OriginalWidth", "aperio.Top",
               "aperio.Left", "aperio.MPP", "aperio.LineCameraSkew",
               "aperio.LineAreaXOffset", "aperio.LineAreaYOffset", "aperio.Focus Offset",
               "aperio.AppMag", "aperio.StripeWidth", "aperio.Filtered"} |->
        CASE name = "aperio.Filename" -> "filename"
          [] name = "aperio.ImageID" -> "image_id"
          [] name = "aperio.ScanScope ID" -> "scan_scope_id"
          [] name = "aperio.Date" -> "date"
          [] name = "aperio.Time" -> "time"
          [] name = "aperio.User" -> "user"
          [] name = "aperio.ICC Profile" -> "icc_profile"
          [] name = "aperio.Parmset" -> "parmset"
          [] name = "aperio.Originalheight" -> "original_height"
          [] name = "aperio.OriginalWidth" -> "original_width"
          [] name = "aperio.Top" -> "top"
          [] name = "aperio.Left" -> "left"
          [] name = "aperio.MPP" -> "mpp"
          [] name = "aperio.LineCameraSkew" -> "line_camera_skew"
          [] name = "aperio.LineAreaXOffset" -> "line_area_x_offset"
          [] name = "aperio.LineAreaYOffset" -> "line_area_y_offset"
          [] name = "aperio.Focus Offset" -> "focus_offset"
          [] name = "aperio.AppMag" -> "app_mag"
          [] name = "aperio.StripeWidth" -> "stripe_width"
          [] name = "aperio.Filtered" -> "filtered"]

\* The type of each field's value.
U32Fields == {"original_height", "original_width", "app_mag", "stripe_width", "filtered"}
F32Fields ==
    {"top", "left", "mpp", "line_camera_skew", "line_area_x_offset",
     "line_area_y_offset", "focus_offset"}

\* u32::from_str_radix(value, 10) on the values the model passes: digits
\* only, no larger than u32::MAX.
u32_from_str_radix(value) ==
    CASE value = "7" -> Some([u32 |-> "7"])
      [] OTHER -> None

\* f32::from_str_radix(value, 10) on the values the model passes.
f32_from_str_radix(value) ==
    CASE value = "7" -> Some([f32 |-> "7.0"])
      [] value = "1.5" -> Some([f32 |-> "1.5"])
      [] value = "-1" -> Some([f32 |-> "-1.0"])
      [] value = "4294967296" -> Some([f32 |-> "4294967296.0"])
      [] OTHER -> None

\* parse_property_name(&mut self, name, value): the struct afterwards,
\* whether the call panicked (unwrap on a value that does not parse) and
\* whether it printed the "Could not parse" line.
parse_property_name(self, name, value) ==
    IF name \notin DOMAIN Arms
    THEN [self |-> self, panic |-> FALSE, logged |-> TRUE]
    ELSE LET field == Arms[name]
             val == IF field \in U32Fields THEN u32_from_str_radix(value)
                    ELSE IF field \in F32Fields THEN f32_from_str_radix(value)
                    ELSE Some([string |-> value])
         IN IF val.some
            THEN [self |-> [self EXCEPT ![field] = Some(val.v)],
                  panic |-> FALSE, logged |-> FALSE]
            ELSE [self |-> self, panic |-> TRUE, logged |-> FALSE]

\* ------------------------------------------------------------- state
VARIABLES
    slots,     \* the OpenSlide values of the program: none yet, live, or dropped
    opens,     \* per native pointer: how often the native open returned it
    closes,    \* per native pointer: how often the native close was called on it
    crashed,   \* the process was ended by a native call on a released pointer
    last,      \* the latest wrapper operation: its name, arguments, native calls, result
    aperio,    \* an Aperio value: field -> Option
    panicked,  \* parse_property_name panicked
    parsed     \* the latest parse_property_name call: name and value

vars == <<slots, opens, closes, crashed, last, aperio, panicked, parsed>>

Op(op, args, out) == [op |-> op, args |-> args, ncalls |-> out.ncalls, result |-> out.result]

\* The struct a live slot holds.
Self(w) == [osr |-> slots[w].osr]

Init ==
    /\ slots = [w \in Wid |-> [st |-> "none", osr |-> 0]]
    /\ opens = [p \in Ptr |-> 0]
    /\ closes = [p \in Ptr |-> 0]
    /\ crashed = FALSE
    /\ last = Op("init", <<>>, Outcome(<<>>, Ok(0)))
    /\ aperio = AperioDefault
    /\ panicked = FALSE
    /\ parsed = [name |-> "", value |-> "", logged |-> FALSE]

\* The state right after a first successful OpenSlide::new.
InitQ ==
    /\ slots = [w \in Wid |-> IF w = 1 THEN [st |-> "live", osr |-> 1]
                                       ELSE [st |-> "none", osr |-> 0]]
    /\ opens = [p \in Ptr |-> IF p = 1 THEN 1 ELSE 0]
    /\ closes = [p \in Ptr |-> 0]
    /\ crashed = FALSE
    /\ last = Op("new", [exists |-> TRUE, utf8 |-> TRUE],
                 Outcome(<<Call("open", 0, <<>>, BindOk(1))>>, Ok([osr |-> 1])))
    /\ aperio = AperioDefault
    /\ panicked = FALSE
    /\ parsed = [name |-> "", value |-> "", logged |-> FALSE]

\* ------------------------------------------------------------- lifecycle actions
\* What the native open can return: null, or a pointer it has not handed out.
Fresh == {p \in Ptr : opens[p] = 0 /\ \A q \in Ptr : opens[q] = 0 => p <= q}
Paths == [exists : BOOLEAN, utf8 : BOOLEAN]

\* let w = OpenSlide::new(filename)
New(w, filename, nret) ==
    /\ ~crashed
    /\ slots[w].st = "none"
    /\ LET out == new(filename, nret) IN
       /\ opens' = IF out.ncalls # <<>> /\ nret # 0
                   THEN [opens EXCEPT ![nret] = @ + 1] ELSE opens
       /\ slots' = IF out.result.ok
                   THEN [slots EXCEPT ![w] = [st |-> "live", osr |-> out.result.v.osr]]
                   ELSE slots
       /\ last' = Op("new", filename, out)
    /\ UNCHANGED <<closes, crashed, aperio, panicked, parsed>>

\* let w2 = w.clone()
Clone(w, w2) ==
    /\ ~crashed
    /\ slots[w].st = "live"
    /\ slots[w2].st = "none"
    /\ slots' = [slots EXCEPT ![w2] = [st |-> "live", osr |-> clone(Self(w)).osr]]
    /\ last' = Op("clone", <<>>, Outcome(<<>>, Ok(0)))
    /\ UNCHANGED <<opens, closes, crashed, aperio, panicked, parsed>>

\* w goes out of scope.  Closing a pointer that is already released is
\* undefined at the native layer: the process goes on or is ended.
Drop(w, abort) ==
    /\ ~crashed
    /\ slots[w].st = "live"
    /\ abort => closes[slots[w].osr] > 0
    /\ LET out == drop(Self(w)) IN
       /\ closes' = [closes EXCEPT ![out.ncalls[1].osr] = @ + 1]
       /\ last' = Op("drop", <<>>, out)
    /\ slots' = [slots EXCEPT ![w].st = "dropped"]
    /\ crashed' = abort
    /\ UNCHANGED <<opens, aperio, panicked, parsed>>

\* A &self method of a live value; out is what the method does with the
\* chosen native return values.  A native call on a released pointer is
\* undefined: it returns anything, or ends the process in the first call.
Aborted == Error("abort", "process ended", Z(0), Z(0))
Method(w, op, args, out, abort) ==
    /\ ~crashed
    /\ slots[w].st = "live"
    /\ abort => (out.ncalls # <<>> /\ closes[slots[w].osr] > 0)
    /\ last' = IF abort
               THEN Op(op, args, Outcome(<<[out.ncalls[1] EXCEPT !.ret = Aborted]>>, Aborted))
               ELSE Op(op, args, out)
    /\ crashed' = abort
    /\ UNCHANGED <<slots, opens, closes, aperio, panicked, parsed>>

\* ------------------------------------------------------------- method actions
GetLevelCount(w, r, abort) ==
    Method(w, "get_level_count", <<>>, get_level_count(Self(w), r), abort)

GetLevel0Dimensions(w, r, abort) ==
    Method(w, "get_level0_dimensions", <<>>, get_level0_dimensions(Self(w), r), abort)

GetLevelDimensions(w, level, rc, rd, abort) ==
    Method(w, "get_level_dimensions", [level |-> level],
           get_level_dimensions(Self(w), level, rc, rd), abort)

GetLevelDownsample(w, level, rc, rd, abort) ==
    Method(w, "get_level_downsample", [level |-> level],
           get_level_downsample(Self(w), level, rc, rd), abort)

GetBestLevelForDownsample(w, downsample_factor, r, abort) ==
    Method(w, "get_best_level_for_downsample", [downsample_factor |-> downsample_factor],
           get_best_level_for_downsample(Self(w), downsample_factor, r), abort)

ReadRegion(w, row, col, level, height, width, r, dec, abort) ==
    Method(w, "read_region",
           [row |-> row, col |-> col, level |-> level, height |-> height, width |-> width],
           read_region(Self(w), row, col, level, height, width, r, dec), abort)

GetProperties(w, rn, rv, abort) ==
    Method(w, "get_properties", <<>>, get_properties(Self(w), rn, rv), abort)

\* ------------------------------------------------------------- inputs
\* What the native layer may return, and what a caller may pass.
NativeInts == {Z(d) : d \in -MinNeg..MaxLevel}
BindInts == {BindErr} \cup {BindOk(v) : v \in NativeInts}
BindDims == {BindErr} \cup {BindOk(<<wd, ht>>) : wd \in NativeInts, ht \in NativeInts}
Floats == {NaN, NegZero} \cup {Fl(v) : v \in -MinNeg..MaxLevel}
BindFloats == {BindErr} \cup {BindOk(f) : f \in Floats}
\* Levels of any integer type T, and of any unsigned one.
Levels ==
    {Z(d) : d \in -1..(MaxLevel + 1)} \cup {Num(31, -1), Num(31, 0), Num(32, -1), Num(32, 0)}
ULevels == {l \in Levels : Le(Z(0), l)}
\* Region requests (one unsigned T for all five parameters).
Coords == {Z(0), Z(1), Num(63, -1), Num(63, 0)}
RegionLevels == {Z(0), Z(MaxLevel), Num(31, -1), Num(31, 0)}
Sizes == {Z(1), Z(2), Num(63, 0)}
BindBuffers == {BindErr, BindOk("buffer")}
Decoded == {BindErr, BindOk("image")}
\* Property names and values.
Names == {"vendor.A", "vendor.B"}
NameSeqs == UNION {[1..n -> Names] : n \in 0..MaxNames}
BindNames == {BindErr} \cup {BindOk(ns) : ns \in NameSeqs}
BindValues == {BindErr, BindOk("1"), BindOk("2")}
ValueSeqs(rn) == IF rn.ok THEN [1..Len(rn.v) -> BindValues] ELSE {<<>>}

\* The few native return values the lifecycle runs use.
FewInts == {BindErr, BindOk(Z(1))}
FewDims == {BindErr, BindOk(<<Z(1), Z(1)>>)}
FewFloats == {BindErr, BindOk(Fl(1))}
FewNames == {BindErr, BindOk(<<"vendor.A">>)}

\* ------------------------------------------------------------- specifications
\* Handles are opened, cloned, used and dropped.
Next ==
    \/ \E w \in Wid, f \in Paths, nret \in {0} \cup Fresh : New(w, f, nret)
    \/ \E w \in Wid, w2 \in Wid : Clone(w, w2)
    \/ \E w \in Wid, abort \in BOOLEAN : Drop(w, abort)
    \/ \E w \in Wid, r \in FewInts, abort \in BOOLEAN : GetLevelCount(w, r, abort)
    \/ \E w \in Wid, r \in FewDims, abort \in BOOLEAN : GetLevel0Dimensions(w, r, abort)
    \/ \E w \in Wid, rc \in FewInts, rd \in FewDims, abort \in BOOLEAN :
          GetLevelDimensions(w, Z(0), rc, rd, abort)
    \/ \E w \in Wid, rc \in FewInts, rd \in FewFloats, abort \in BOOLEAN :
          GetLevelDownsample(w, Z(0), rc, rd, abort)
    \/ \E w \in Wid, r \in FewInts, abort \in BOOLEAN :
          GetBestLevelForDownsample(w, Fl(1), r, abort)
    \/ \E w \in Wid, r \in BindBuffers, abort \in BOOLEAN :
          ReadRegion(w, Z(0), Z(0), Z(0), Z(1), Z(1), r, BindOk("image"), abort)
    \/ \E w \in Wid, rn \in FewNames, abort \in BOOLEAN :
          \E rv \in ValueSeqs(rn) : GetProperties(w, rn, rv, abort)

Spec == Init /\ [][Next]_vars

\* One open handle is queried with every argument and every native answer.
\* The record of a call is kept until the caller has taken the result.
Ready == last.op = "new"
Return ==
    /\ ~Ready
    /\ last' = Op("new", [exists |-> TRUE, utf8 |-> TRUE],
                  Outcome(<<Call("open", 0, <<>>, BindOk(1))>>, Ok([osr |-> 1])))
    /\ UNCHANGED <<slots, opens, closes, crashed, aperio, panicked, parsed>>

NextQ ==
    \/ Ready /\ \E r \in BindInts : GetLevelCount(1, r, FALSE)
    \/ Ready /\ \E r \in BindDims : GetLevel0Dimensions(1, r, FALSE)
    \/ Ready /\ \E level \in Levels, rc \in BindInts, rd \in BindDims :
          GetLevelDimensions(1, level, rc, rd, FALSE)
    \/ Ready /\ \E level \in ULevels, rc \in BindInts, rd \in BindFloats :
          GetLevelDownsample(1, level, rc, rd, FALSE)
    \/ Ready /\ \E f \in Floats, r \in BindInts : GetBestLevelForDownsample(1, f, r, FALSE)
    \/ Ready /\ \E row \in Coords, col \in Coords, level \in RegionLevels,
          height \in Sizes, width \in Sizes, r \in BindBuffers, dec \in Decoded :
          ReadRegion(1, row, col, level, height, width, r, dec, FALSE)
    \/ Ready /\ \E rn \in BindNames : \E rv \in ValueSeqs(rn) : GetProperties(1, rn, rv, FALSE)
    \/ Return

SpecQ == InitQ /\ [][NextQ]_vars

\* An Aperio value is fed property after property.
PropNames ==
    {"aperio.Filename", "aperio.ImageID", "aperio.Originalheight", "aperio.Top",
     "aperio.AppMag", "aperio.OriginalHeight", "openslide.vendor"}
PropValues == {"7", "1.5", "-1", "abc", "4294967296"}

ParsePropertyName(name, value) ==
    /\ ~panicked
    /\ LET r == parse_property_name(aperio, name, value) IN
       /\ aperio' = r.self
       /\ panicked' = r.panic
       /\ parsed' = [name |-> name, value |-> value, logged |-> r.logged]
    /\ UNCHANGED <<slots, opens, closes, crashed, last>>

NextAperio == \E name \in PropNames, value \in PropValues : ParsePropertyName(name, value)

SpecAperio == Init /\ [][NextAperio]_vars

\* ------------------------------------------------------------- properties
\* The native calls of the latest operation made through fn.
CallsOf(fn) == {i \in DOMAIN last.ncalls : last.ncalls[i].fn = fn}
QueryFns ==
    {"get_level_count", "get_level0_dimensions", "get_level_dimensions",
     "get_level_downsample", "get_best_level_for_downsample", "read_region",
     "get_property_names", "get_property_value"}
Holders(p) == {w \in Wid : slots[w].st # "none" /\ slots[w].osr = p}
LiveHolders(p) == {w \in Wid : slots[w].st = "live" /\ slots[w].osr = p}

\* C1: the native close is invoked exactly once per native pointer: never
\* more than once, and once when every wrapper holding the pointer has been
\* dropped, clones included.
C1_CloseExactlyOnce ==
    \A p \in Ptr :
        /\ closes[p] <= 1
        /\ (Holders(p) # {} /\ LiveHolders(p) = {}) => closes[p] = 1

\* C2: no native query or read call is issued on a pointer on which the
\* native close has been called.
C2_NoUseAfterClose ==
    \A i \in DOMAIN last.ncalls :
        last.ncalls[i].fn \in QueryFns => closes[last.ncalls[i].osr] = 0

IsSentinel(v) == v = Z(-1)
IsBelowSentinel(v) == v.e = 0 /\ v.d < -1
IsValid(v) == ~IsSentinel(v) /\ ~IsBelowSentinel(v)
Classified(v, result) ==
    /\ IsSentinel(v) => ~result.ok /\ result.kind = "known"
    /\ IsBelowSentinel(v) => ~result.ok /\ result.kind = "unknown"

\* C3 for the integer queries: the level count (also when it is queried for
\* a per-level operation) and the best level.
C3_Integers ==
    /\ \A i \in CallsOf("get_level_count") :
          LET r == last.ncalls[i].ret IN
          r.ok => /\ Classified(r.v, last.result)
                  /\ (last.op = "get_level_count" /\ IsValid(r.v)) => last.result = Ok(r.v)
    /\ \A i \in CallsOf("get_best_level_for_downsample") :
          LET r == last.ncalls[i].ret IN
          r.ok => /\ Classified(r.v, last.result)
                  /\ IsValid(r.v) => last.result = Ok(r.v)
    /\ (last.op \in {"get_level_count", "get_best_level_for_downsample"} /\ last.result.ok)
          => Le(Z(0), last.result.v)

\* C3 for the dimension queries: the width is classified, then the height;
\* success carries exactly the two values, and needs both to be valid.
C3_Dimensions ==
    \A i \in CallsOf("get_level0_dimensions") \cup CallsOf("get_level_dimensions") :
        LET r == last.ncalls[i].ret IN
        r.ok => /\ Classified(r.v[1], last.result)
                /\ IsValid(r.v[1]) => Classified(r.v[2], last.result)
                /\ last.result.ok <=> (IsValid(r.v[1]) /\ IsValid(r.v[2]))
                /\ last.result.ok => last.result = Ok(<<r.v[1], r.v[2]>>)

\* C3 for the downsample factor: a negative one is an error, any other is
\* returned as it is.
C3_Downsample ==
    \A i \in CallsOf("get_level_downsample") :
        LET r == last.ncalls[i].ret IN
        r.ok => /\ (r.v.k = "num" /\ r.v.v < 0) => ~last.result.ok
                /\ last.result.ok => last.result = Ok(r.v)

\* C3: a native -1 is the known-failure error, a native value below -1 the
\* unknown-result error, a negative downsample factor an error; only a valid
\* value is returned as success, unchanged; each axis of the dimensions is
\* checked, the width first.
C3_SentinelTranslation == C3_Integers /\ C3_Dimensions /\ C3_Downsample

\* A per-level dimension query whose width is valid and whose height is the
\* sentinel: the known-failure error.
C3_Witness ==
    /\ last.op = "get_level_dimensions"
    /\ \E i \in CallsOf("get_level_dimensions") :
          /\ last.ncalls[i].ret.ok
          /\ IsValid(last.ncalls[i].ret.v[1])
          /\ IsSentinel(last.ncalls[i].ret.v[2])
    /\ ~last.result.ok
    /\ last.result.kind = "known"

\* ------------------------------------------------------------- level validation
PerLevelOps == {"get_level_dimensions", "get_level_downsample"}

\* The level-count query of a per-level operation failed: the operation
\* fails with that error and makes no other native call.
LevelCountFailure ==
    LET rc == last.ncalls[1].ret IN
    (~rc.ok \/ ~IsValid(rc.v)) =>
        /\ Len(last.ncalls) = 1
        /\ ~last.result.ok
        /\ last.result.kind = (IF ~rc.ok THEN "native"
                               ELSE IF IsSentinel(rc.v) THEN "known" ELSE "unknown")
        /\ last.result.what = (IF ~rc.ok THEN "get_level_count" ELSE "Number of levels")

\* The operation stopped at a range error naming the level and the maximum.
RangeError(level, max) ==
    /\ Len(last.ncalls) = 1
    /\ last.result = Error("range", "Specified level", level, max)

\* C4 as stated: a per-level operation fails with a range error naming the
\* level and the maximum whenever level > level_count(), and then makes no
\* per-level native call; a failed level-count query fails the operation
\* without a per-level native call.
C4_RangeErrorAboveCount ==
    last.op \in PerLevelOps =>
        LET rc == last.ncalls[1].ret IN
        /\ last.ncalls[1].fn = "get_level_count"
        /\ LevelCountFailure
        /\ (rc.ok /\ IsValid(rc.v) /\ Lt(rc.v, last.args.level))
              => RangeError(last.args.level, rc.v)

\* C4 amended: whenever level > level_count() the operation fails without a
\* per-level native call, with the range error when the level fits in 32
\* unsigned bits and with the conversion error when it does not.
C4_FailsAboveCount ==
    last.op \in PerLevelOps =>
        LET rc == last.ncalls[1].ret IN
        /\ last.ncalls[1].fn = "get_level_count"
        /\ LevelCountFailure
        /\ (rc.ok /\ IsValid(rc.v) /\ Lt(rc.v, last.args.level)) =>
              IF Lt(last.args.level, Num(32, 0))
              THEN RangeError(last.args.level, rc.v)
              ELSE /\ Len(last.ncalls) = 1
                   /\ ~last.result.ok
                   /\ last.result.kind = "conversion"

\* A level one above the level count was refused with the range error.
C4_Witness ==
    /\ last.op = "get_level_dimensions"
    /\ last.ncalls[1].ret = BindOk(Z(1))
    /\ last.args.level = Z(2)
    /\ RangeError(Z(2), Z(1))

\* C5: a per-level native call (dimensions, downsample, region read) is only
\* reached with a level in [0, level_count), the level count being the one
\* the operation has queried before.
C5_LevelBelowCount ==
    \A i \in DOMAIN last.ncalls :
        LET c == last.ncalls[i] IN
        c.fn \in PerLevelOps \cup {"read_region"} =>
            LET level == IF c.fn = "read_region" THEN c.args.level ELSE c.args[1] IN
            \E j \in 1..(i - 1) :
                /\ last.ncalls[j].fn = "get_level_count"
                /\ last.ncalls[j].ret.ok
                /\ IsValid(last.ncalls[j].ret.v)
                /\ Le(Z(0), level)
                /\ Lt(level, last.ncalls[j].ret.v)

\* ------------------------------------------------------------- best level
IsNegative(f) == f.k = "num" /\ f.v < 0
IsAtLeastZero(f) == f.k = "negzero" \/ (f.k = "num" /\ f.v >= 0)

\* C7 as stated: a negative factor is a precondition error before the native
\* call, and the native call is issued only for a factor >= 0.
C7_NativeCallOnlyAtLeastZero ==
    last.op = "get_best_level_for_downsample" =>
        LET f == last.args.downsample_factor IN
        /\ IsNegative(f) =>
              /\ last.ncalls = <<>>
              /\ ~last.result.ok
              /\ last.result.kind = "precondition"
        /\ last.ncalls # <<>> => IsAtLeastZero(f)

\* C7 amended: a negative factor is a precondition error before the native
\* call; every other factor (a factor >= 0, and NaN, which is not below
\* zero) reaches the native call, once and unchanged.
C7_NegativeFactorRejected ==
    last.op = "get_best_level_for_downsample" =>
        LET f == last.args.downsample_factor IN
        /\ IsNegative(f) =>
              /\ last.ncalls = <<>>
              /\ ~last.result.ok
              /\ last.result.kind = "precondition"
        /\ ~IsNegative(f) =>
              /\ Len(last.ncalls) = 1
              /\ last.ncalls[1].fn = "get_best_level_for_downsample"
              /\ last.ncalls[1].args = <<f>>

\* The factor -1 was refused before the native call.
C7_Witness ==
    /\ last.op = "get_best_level_for_downsample"
    /\ last.args.downsample_factor = Fl(-1)
    /\ last.ncalls = <<>>
    /\ ~last.result.ok
    /\ last.result.kind = "precondition"

\* ------------------------------------------------------------- region read
\* x is representable in 64, in 32 signed bits (x is not negative here).
In64(x) == Lt(x, Num(63, 0))
In32(x) == Lt(x, Num(31, 0))

\* C8: read_region fails with the conversion error, without a native call,
\* when one of row, col, height, width does not fit in 64 signed bits or the
\* level does not fit in 32; otherwise it calls the native region read once,
\* with col as x, row as y, width as w, height as h and the level, all
\* unchanged, and the decoder gets the height and width of the request.
C8_RegionConversions ==
    last.op = "read_region" =>
        LET a == last.args
            fit == In64(a.row) /\ In64(a.col) /\ In64(a.height) /\ In64(a.width)
                   /\ In32(a.level)
        IN
        /\ ~fit =>
              /\ last.ncalls = <<>>
              /\ ~last.result.ok
              /\ last.result.kind = "conversion"
        /\ fit =>
              /\ Cardinality(CallsOf("read_region")) = 1
              /\ last.ncalls[1].fn = "read_region"
              /\ last.ncalls[1].args =
                    [x |-> a.col, y |-> a.row, level |-> a.level, w |-> a.width, h |-> a.height]
        /\ \A i \in CallsOf("decode_buffer") :
              /\ last.ncalls[i].args.height = a.height
              /\ last.ncalls[i].args.width = a.width
              /\ i = 2
              /\ last.ncalls[1].ret.ok
              /\ last.ncalls[i].args.buffer = last.ncalls[1].ret.v

\* Only the level does not fit (2^31): the conversion error, no native call.
C8_Witness ==
    /\ last.op = "read_region"
    /\ last.args.level = Num(31, 0)
    /\ In64(last.args.row) /\ In64(last.args.col)
    /\ In64(last.args.height) /\ In64(last.args.width)
    /\ last.ncalls = <<>>
    /\ ~last.result.ok
    /\ last.result.kind = "conversion"

\* ------------------------------------------------------------- properties
ValueCalls == CallsOf("get_property_value")

\* C9: on success the keys of the map are exactly the enumerated names and
\* each key has the value the native value query returned for it (the latest
\* one, should a name be enumerated twice); when the enumeration or a value
\* query fails the result is an error, not a map, and the failing query is
\* the last native call.
C9_PropertiesMap ==
    last.op = "get_properties" =>
        LET rn == last.ncalls[1].ret IN
        /\ last.ncalls[1].fn = "get_property_names"
        /\ ~rn.ok => (~last.result.ok /\ Len(last.ncalls) = 1)
        /\ \A i \in ValueCalls :
              ~last.ncalls[i].ret.ok => (~last.result.ok /\ i = Len(last.ncalls))
        /\ \A i \in ValueCalls : rn.ok /\ last.ncalls[i].args = <<rn.v[i - 1]>>
        /\ last.result.ok =>
              /\ rn.ok
              /\ Len(last.ncalls) = Len(rn.v) + 1
              /\ DOMAIN last.result.v = {rn.v[n] : n \in DOMAIN rn.v}
              /\ \A k \in DOMAIN last.result.v :
                    \E i \in ValueCalls :
                        /\ last.ncalls[i].args = <<k>>
                        /\ last.ncalls[i].ret = BindOk(last.result.v[k])
                        /\ \A j \in ValueCalls : last.ncalls[j].args = <<k>> => j <= i

\* Two names were enumerated and the value query of the first one failed.
C9_Witness ==
    /\ last.op = "get_properties"
    /\ last.ncalls[1].ret.ok
    /\ Len(last.ncalls[1].ret.v) = 2
    /\ Len(last.ncalls) = 2
    /\ ~last.ncalls[2].ret.ok
    /\ ~last.result.ok

\* ------------------------------------------------------------- Aperio parser
RecognizedNames ==
    {"aperio.Filename", "aperio.ImageID", "aperio.ScanScope ID", "aperio.Date",
     "aperio.Time", "aperio.User", "aperio.ICC Profile", "aperio.Parmset",
     "aperio.Originalheight", "aperio.OriginalWidth", "aperio.Top", "aperio.Left",
     "aperio.MPP", "aperio.LineCameraSkew", "aperio.LineAreaXOffset",
     "aperio.LineAreaYOffset", "aperio.Focus Offset", "aperio.AppMag",
     "aperio.StripeWidth", "aperio.Filtered"}

\* C10: a call of parse_property_name never fails; with an unrecognized name
\* it logs and leaves every field as it was; with a recognized name it sets
\* one field, the one of that name, and leaves every other field as it was.
C10_ParseSetsOneField ==
    [][LET name == parsed'.name IN
       /\ ~panicked'
       /\ name \notin RecognizedNames => (aperio' = aperio /\ parsed'.logged)
       /\ name \in RecognizedNames =>
             \E f \in Fields :
                 /\ aperio'[f].some
                 /\ \A g \in Fields \ {f} : aperio'[g] = aperio[g]]_vars

\* ------------------------------------------------------------- dimension errors
\* C11: when a dimension query gets an axis below -1 from the native layer,
\* the unknown-result error names that axis and reports that axis's value:
\* the width's for an invalid width, the height's for an invalid height
\* next to a valid width.
C11_UnknownErrorReportsAxis ==
    \A i \in CallsOf("get_level0_dimensions") \cup CallsOf("get_level_dimensions") :
        LET r == last.ncalls[i].ret IN
        r.ok =>
            /\ IsBelowSentinel(r.v[1]) =>
                  last.result = Error("unknown", "Width", r.v[1], Z(0))
            /\ (IsValid(r.v[1]) /\ IsBelowSentinel(r.v[2])) =>
                  last.result = Error("unknown", "Height", r.v[2], Z(0))

====
